---------------------------- MODULE Spec2Model ----------------------------
(***************************************************************************)
(* Model of cmd/vault-secrets-webhook/registry/registry.go: resolution of  *)
(* a container image's entrypoint and cmd from a Docker registry, using    *)
(* the credentials of the pod's first image-pull secret.                   *)
(*                                                                         *)
(* Strings whose characters the code inspects (image names, registry       *)
(* hosts, registry addresses) are sequences of one-character strings.      *)
(* Strings the code only copies or compares with "" (secret names,         *)
(* usernames, passwords, digests, log messages) are TLA+ strings.          *)
(*                                                                         *)
(* One resolution is one call of GetEntrypointCmd.  It is cut into steps   *)
(* at its blocking network calls, so that several resolutions running in   *)
(* the same process interleave.  logger.Fatal (logrus) logs and calls      *)
(* os.Exit(1): it ends the whole process, hence every resolution.          *)
(***************************************************************************)
EXTENDS Naturals, Sequences, FiniteSets

VARIABLES
    secrets,   \* Kubernetes: <<namespace, name>> -> Secret.Data
    exited,    \* TRUE once logger.Fatal has terminated the process
    pc,        \* per resolution: position in GetEntrypointCmd / GetImageBlob
    input,     \* per resolution: arguments of GetEntrypointCmd
    podInfo,   \* per resolution: the K8s struct (podInfo)
    frame,     \* per resolution: parameters and locals of GetImageBlob
    calls,     \* per resolution: log of the external calls made
    ret        \* per resolution: how the resolution ended

vars == <<secrets, exited, pc, input, podInfo, frame, calls, ret>>

---------------------------------------------------------------------------
(* Bounds *)

NumResolutions == 2
MaxImageLen == 4
MaxHostLen == 1
MaxSchemes == 2
MaxAuths == 2

Resolutions == 1..NumResolutions

---------------------------------------------------------------------------
(* Strings *)

Range(s) == {s[i] : i \in 1..Len(s)}

\* strings.HasPrefix
HasPrefix(s, prefix) ==
    /\ Len(s) >= Len(prefix)
    /\ SubSeq(s, 1, Len(prefix)) = prefix

\* strings.Index for a one-character separator; 0 when absent
Index(s, c) ==
    IF c \in Range(s)
    THEN CHOOSE i \in 1..Len(s) : s[i] = c /\ \A j \in 1..(i - 1) : s[j] # c
    ELSE 0

\* Mutant of SplitN2: splits at the last separator instead of the first.
SplitN2Last(s, sep) ==
    IF sep \notin Range(s) THEN <<s>>
    ELSE LET i == CHOOSE k \in 1..Len(s) :
                      s[k] = sep /\ \A j \in (k + 1)..Len(s) : s[j] # sep
         IN  <<SubSeq(s, 1, i - 1), SubSeq(s, i + 1, Len(s))>>

\* strings.SplitN(s, sep, 2) for a one-character separator
SplitN2(s, sep) ==
    LET i == Index(s, sep)
    IN  IF i = 0 THEN <<s>>
        ELSE <<SubSeq(s, 1, i - 1), SubSeq(s, i + 1, Len(s))>>

\* strings.TrimLeft(s, cutset): drops every leading character of s that
\* occurs anywhere in cutset
RECURSIVE TrimLeft(_, _)
TrimLeft(s, cutset) ==
    IF s # <<>> /\ s[1] \in Range(cutset)
    THEN TrimLeft(Tail(s), cutset)
    ELSE s

HttpsScheme == <<"h", "t", "t", "p", "s", ":", "/", "/">>

\* "https://registry-1.docker.io/"
DefaultRegistryAddress ==
    HttpsScheme \o <<"r", "e", "g", "i", "s", "t", "r", "y", "-", "1", ".",
                     "d", "o", "c", "k", "e", "r", ".", "i", "o", "/">>

\* corev1.DockerConfigJsonKey
DockerConfigJsonKey == ".dockerconfigjson"


---------------------------------------------------------------------------
(* Pure parts of the code *)

\* ParseContainerImage: fatal is TRUE where the code calls logger.Fatal
ParseContainerImage(image) ==
    LET split == SplitN2(image, ":")
    IN  IF Len(split) <= 1
        THEN [fatal |-> TRUE, imageName |-> <<>>, tag |-> <<>>]
        ELSE [fatal |-> FALSE, imageName |-> split[1], tag |-> split[2]]

\* A JSON document is modelled by what it decodes to: "empty" (no bytes, as
\* for a key missing from Secret.Data), "invalid" (not JSON), or "object"
\* with the fields present in it.
EmptyBytes == [kind |-> "empty"]
InvalidJson == [kind |-> "invalid"]
JsonObject(fields) == [kind |-> "object", fields |-> fields]

NoFields == [f \in {} |-> <<>>]
EmptyMap == [h \in {} |-> [Username |-> "", Password |-> ""]]

\* data[corev1.DockerConfigJsonKey]: a missing key reads as a nil slice
DataLookup(data, key) ==
    IF key \in DOMAIN data THEN data[key] ELSE EmptyBytes

\* json.Unmarshal(dockerConfig, &dockerCreds) into DockerCreds
UnmarshalDockerCreds(bytes) ==
    IF bytes.kind # "object"
    THEN [err |-> TRUE, creds |-> [Auths |-> EmptyMap]]
    ELSE [err |-> FALSE,
          creds |-> [Auths |-> IF "auths" \in DOMAIN bytes.fields
                                THEN bytes.fields["auths"]
                                ELSE EmptyMap]]

\* json.Unmarshal(b, &msg) into BlobResponse; absent arrays stay nil (empty)
UnmarshalBlobResponse(bytes) ==
    IF bytes.kind # "object"
    THEN [err |-> TRUE, Entrypoint |-> <<>>, Cmd |-> <<>>]
    ELSE LET config == IF "config" \in DOMAIN bytes.fields
                       THEN bytes.fields["config"]
                       ELSE NoFields
         IN  [err |-> FALSE,
              Entrypoint |-> IF "Entrypoint" \in DOMAIN config
                             THEN config["Entrypoint"] ELSE <<>>,
              Cmd |-> IF "Cmd" \in DOMAIN config THEN config["Cmd"] ELSE <<>>]

\* reflect.ValueOf(dockerCreds.Auths).MapKeys(): the keys come in
\* unspecified order, so element [0] is any key of the map; on an empty map
\* the index expression panics.
FirstMapKeys(auths) == DOMAIN auths

\* Mutant of parseDockerConfig: prepends "https://" unconditionally.
parseDockerConfigAlwaysPrefix(k, dockerCreds, key) ==
    [k EXCEPT !.RegistryName = key,
              !.RegistryAddress = HttpsScheme \o key,
              !.RegistryUsername = dockerCreds.Auths[key].Username,
              !.RegistryPassword = dockerCreds.Auths[key].Password]

\* K8s.parseDockerConfig, given the key MapKeys()[0] produced
parseDockerConfig(k, dockerCreds, key) ==
    [k EXCEPT !.RegistryName = key,
              !.RegistryAddress = IF ~HasPrefix(key, HttpsScheme)
                                  THEN HttpsScheme \o key
                                  ELSE key,
              !.RegistryUsername = dockerCreds.Auths[key].Username,
              !.RegistryPassword = dockerCreds.Auths[key].Password]

\* Mutant of TrimRegistryName: leaves the unset address unset.
TrimNoDefault(k) ==
    LET image == IF k.RegistryName # <<>>
                 THEN TrimLeft(k.Image, k.RegistryName \o <<"/">>)
                 ELSE k.Image
    IN  [Image |-> image, registryAddress |-> k.RegistryAddress]

\* GetEntrypointCmd after Load: the image with the registry name trimmed
\* and the registry address, defaulted
TrimRegistryName(k) ==
    LET image == IF k.RegistryName # <<>>
                 THEN TrimLeft(k.Image, k.RegistryName \o <<"/">>)
                 ELSE k.Image
    IN  [Image |-> image,
         registryAddress |-> IF k.RegistryAddress = <<>>
                             THEN DefaultRegistryAddress
                             ELSE k.RegistryAddress]

---------------------------------------------------------------------------
(* Inputs *)

RECURSIVE SeqsUpTo(_, _)
\* all sequences over alphabet of length 0..n
SeqsUpTo(alphabet, n) ==
    IF n = 0 THEN {<<>>}
    ELSE LET shorter == SeqsUpTo(alphabet, n - 1)
         IN  shorter \cup {Append(t, c) : t \in shorter, c \in alphabet}

RECURSIVE Schemes(_)
\* "https://" repeated n times
Schemes(n) == IF n = 0 THEN <<>> ELSE HttpsScheme \o Schemes(n - 1)

Namespace == "default"
PullSecretName == "regcred"

MyRegistry == <<"m", "y", "r", "e", "g", "i", "s", "t", "r", "y", ".", "i", "o">>
OtherRegistry == HttpsScheme \o <<"o", "t", "h", "e", "r", ".", "i", "o">>

AppImage == MyRegistry \o <<"/", "a", "p", "p", ":", "2", ".", "0">>
RedisImage == MyRegistry \o <<"/", "r", "e", "d", "i", "s", ":", "6">>
NginxImage == <<"n", "g", "i", "n", "x">>

SampleImages == {AppImage, RedisImage, NginxImage}
HostImages == {RedisImage, NginxImage}

ImageChars == {"r", "a", "/", ":"}
Images == SeqsUpTo(ImageChars, MaxImageLen)

HostChars == {"r"}
Hosts == {Schemes(n) \o b : n \in 0..MaxSchemes, b \in SeqsUpTo(HostChars, MaxHostLen)}

AuthConfigs == {[Username |-> "u", Password |-> "p"],
                [Username |-> "u2", Password |-> "p2"]}

\* the auths maps with 1..MaxAuths entries over the given hosts
AuthsMaps(hosts) ==
    UNION {[d -> AuthConfigs] :
              d \in {x \in SUBSET hosts : Cardinality(x) \in 1..MaxAuths}}

\* the Secret store holding one pull secret with the given data
StoreWith(data) == [n \in {<<Namespace, PullSecretName>>} |-> data]

\* Secret.Data carrying the given Docker config JSON payload
DockerConfigData(bytes) == [key \in {DockerConfigJsonKey} |-> bytes]

AuthsDoc(auths) == JsonObject([f \in {"auths"} |-> auths])

OneAuth == [h \in {MyRegistry} |-> [Username |-> "u", Password |-> "p"]]
TwoAuths ==
    [h \in {MyRegistry, OtherRegistry} |->
        IF h = MyRegistry THEN [Username |-> "u", Password |-> "p"]
        ELSE [Username |-> "u2", Password |-> "p2"]]
ShortAuth == [h \in {<<"r">>} |-> [Username |-> "u", Password |-> "p"]]

\* pull secrets without a usable auth entry
UnusableData ==
    {[key \in {} |-> EmptyBytes],
     DockerConfigData(EmptyBytes),
     DockerConfigData(JsonObject(NoFields)),
     DockerConfigData(AuthsDoc(EmptyMap))}

SampleStores ==
    {StoreWith(d) : d \in UnusableData \cup {DockerConfigData(InvalidJson),
                                             DockerConfigData(AuthsDoc(OneAuth)),
                                             DockerConfigData(AuthsDoc(TwoAuths))}}

ImageStores == {StoreWith(DockerConfigData(AuthsDoc(ShortAuth))),
                StoreWith(DockerConfigData(InvalidJson))}

HostStores == {StoreWith(DockerConfigData(AuthsDoc(a))) : a \in AuthsMaps(Hosts)}

\* podSpec.ImagePullSecrets, by name
SamplePullSecrets == {<<>>, <<PullSecretName>>, <<"absent">>}
AllPullSecrets == {<<>>, <<"">>, <<PullSecretName>>, <<"absent">>,
                   <<PullSecretName, "absent">>}

Digests == {"sha256:1", "sha256:2"}

\* registry config blobs
Blobs ==
    {InvalidJson,
     JsonObject(NoFields),
     JsonObject([f \in {"config"} |->
                    [a \in {"Cmd", "Entrypoint"} |->
                        IF a = "Cmd" THEN <<"nginx", "-g", "daemon off;">>
                        ELSE <<>>]]),
     JsonObject([f \in {"config"} |->
                    [a \in {"Entrypoint"} |-> <<"/entry">>]])}

---------------------------------------------------------------------------
(* State *)

\* K8s{}: the zero value of the struct
ZeroK8s ==
    [Namespace |-> "", ImagePullSecrets |-> "", RegistryAddress |-> <<>>,
     RegistryName |-> <<>>, RegistryUsername |-> "", RegistryPassword |-> "",
     Image |-> <<>>]

\* parameters and locals of GetImageBlob before it is called
ZeroFrame ==
    [url |-> <<>>, username |-> "", password |-> "", image |-> <<>>,
     imageName |-> <<>>, tag |-> <<>>, digest |-> ""]

NoInput == [namespace |-> "", image |-> <<>>, pullSecrets |-> <<>>]

\* kind: "none" while running, "returned" (entrypoint, cmd), "fatal"
\* (logger.Fatal, with its message) or "panic"
NoRet == [kind |-> "none", entrypoint |-> <<>>, cmd |-> <<>>, msg |-> ""]

Call(op, args, ok, val) == [op |-> op, args |-> args, ok |-> ok, val |-> val]

InitWith(stores) ==
    /\ secrets \in stores
    /\ exited = FALSE
    /\ pc = [r \in Resolutions |-> "idle"]
    /\ input = [r \in Resolutions |-> NoInput]
    /\ podInfo = [r \in Resolutions |-> ZeroK8s]
    /\ frame = [r \in Resolutions |-> ZeroFrame]
    /\ calls = [r \in Resolutions |-> <<>>]
    /\ ret = [r \in Resolutions |-> NoRet]

Init == InitWith(SampleStores)

---------------------------------------------------------------------------
(* Ways a step ends *)

\* the resolution goes on to its next step
Goto(r, next) ==
    /\ pc' = [pc EXCEPT ![r] = next]
    /\ UNCHANGED <<exited, ret>>

\* logger.Fatal(msg, ...): logs, then os.Exit(1) ends the process
Fatal(r, msg) ==
    /\ pc' = [pc EXCEPT ![r] = "fatal"]
    /\ ret' = [ret EXCEPT ![r] = [NoRet EXCEPT !.kind = "fatal", !.msg = msg]]
    /\ exited' = TRUE

\* a run-time panic leaves GetEntrypointCmd; unless a caller up the stack
\* recovers it, the Go runtime ends the process
Panic(r, recovered) ==
    /\ pc' = [pc EXCEPT ![r] = "panic"]
    /\ ret' = [ret EXCEPT ![r] = [NoRet EXCEPT !.kind = "panic"]]
    /\ exited' = ~recovered

\* return msg.Config.Entrypoint, msg.Config.Cmd
Return(r, entrypoint, cmd) ==
    /\ pc' = [pc EXCEPT ![r] = "returned"]
    /\ ret' = [ret EXCEPT ![r] = [NoRet EXCEPT !.kind = "returned",
                                               !.entrypoint = entrypoint,
                                               !.cmd = cmd]]
    /\ UNCHANGED exited

---------------------------------------------------------------------------
(* Steps of one resolution *)

\* GetEntrypointCmd is called: podInfo := K8s{Namespace: namespace, ...}
GetEntrypointCmd(r, images, pullSecretLists) ==
    /\ ~exited
    /\ pc[r] = "idle"
    /\ \E image \in images, ps \in pullSecretLists :
          input' = [input EXCEPT ![r] = [namespace |-> Namespace,
                                         image |-> image,
                                         pullSecrets |-> ps]]
    /\ podInfo' = [podInfo EXCEPT ![r] = [ZeroK8s EXCEPT !.Namespace = Namespace]]
    /\ Goto(r, "Load")
    /\ UNCHANGED <<secrets, frame, calls>>

\* K8s.readDockerSecret and what Load does with its result
LoadSecret(r, k, apiOk) ==
    LET id == <<k.Namespace, k.ImagePullSecrets>>
        found == apiOk /\ id \in DOMAIN secrets
    IN  /\ calls' = [calls EXCEPT ![r] = Append(@, Call("GetSecret", id, found, ""))]
        /\ IF ~found
           THEN /\ podInfo' = [podInfo EXCEPT ![r] = k]
                /\ Fatal(r, "Cannot read imagePullSecrets")
           ELSE LET u == UnmarshalDockerCreds(
                             DataLookup(secrets[id], DockerConfigJsonKey))
                IN  IF u.err
                    THEN /\ podInfo' = [podInfo EXCEPT ![r] = k]
                         /\ Fatal(r, "Cannot unmarshal docker configuration from imagePullSecrets")
                    ELSE IF FirstMapKeys(u.creds.Auths) = {}
                    THEN /\ podInfo' = [podInfo EXCEPT ![r] = k]
                         /\ \E recovered \in BOOLEAN : Panic(r, recovered)
                    ELSE /\ \E key \in FirstMapKeys(u.creds.Auths) :
                               podInfo' = [podInfo EXCEPT
                                              ![r] = parseDockerConfig(k, u.creds, key)]
                         /\ Goto(r, "Trim")

\* K8s.Load
Load(r) ==
    /\ ~exited
    /\ pc[r] = "Load"
    /\ LET k1 == [podInfo[r] EXCEPT !.Image = input[r].image]
           ps == input[r].pullSecrets
       IN  IF Len(ps) >= 1
           THEN LET k2 == [k1 EXCEPT !.ImagePullSecrets = ps[1]]
                IN  IF k2.ImagePullSecrets # ""
                    THEN \E apiOk \in BOOLEAN : LoadSecret(r, k2, apiOk)
                    ELSE /\ podInfo' = [podInfo EXCEPT ![r] = k2]
                         /\ Goto(r, "Trim")
                         /\ UNCHANGED calls
           ELSE /\ podInfo' = [podInfo EXCEPT ![r] = k1]
                /\ Goto(r, "Trim")
                /\ UNCHANGED calls
    /\ UNCHANGED <<secrets, input, frame>>

\* GetEntrypointCmd after Load, up to the call of GetImageBlob
Trim(r) ==
    /\ ~exited
    /\ pc[r] = "Trim"
    /\ LET t == TrimRegistryName(podInfo[r])
       IN  /\ podInfo' = [podInfo EXCEPT ![r].Image = t.Image]
           /\ frame' = [frame EXCEPT ![r] = [ZeroFrame EXCEPT
                            !.url = t.registryAddress,
                            !.username = podInfo[r].RegistryUsername,
                            !.password = podInfo[r].RegistryPassword,
                            !.image = t.Image]]
    /\ Goto(r, "GetImageBlob")
    /\ UNCHANGED <<secrets, input, calls>>

\* GetImageBlob up to the registry client: ParseContainerImage, then
\* registry.New or registry.NewInsecure (REGISTRY_SKIP_VERIFY), which pings
\* the registry
NewRegistry(r) ==
    /\ ~exited
    /\ pc[r] = "GetImageBlob"
    /\ LET p == ParseContainerImage(frame[r].image)
       IN  IF p.fatal
           THEN /\ Fatal(r, "Cannot find tag for image")
                /\ UNCHANGED <<frame, calls>>
           ELSE /\ frame' = [frame EXCEPT ![r].imageName = p.imageName,
                                          ![r].tag = p.tag]
                /\ \E skipVerify \in BOOLEAN, ok \in BOOLEAN :
                      /\ calls' = [calls EXCEPT ![r] = Append(@,
                            Call(IF skipVerify THEN "NewInsecure" ELSE "New",
                                 <<frame[r].url, frame[r].username, frame[r].password>>,
                                 ok, ""))]
                      /\ IF ok THEN Goto(r, "ManifestV2")
                         ELSE Fatal(r, "Cannot create client for registry")
    /\ UNCHANGED <<secrets, input, podInfo>>

\* Mutant of ManifestV2: a failed manifest request is not fatal.
ManifestV2Continue(r) ==
    /\ ~exited
    /\ pc[r] = "ManifestV2"
    /\ \E result \in {"error"} \cup Digests :
          /\ calls' = [calls EXCEPT ![r] = Append(@,
                Call("ManifestV2", <<frame[r].imageName, frame[r].tag>>,
                     result # "error", IF result = "error" THEN "" ELSE result))]
          /\ frame' = [frame EXCEPT ![r].digest = IF result = "error" THEN "" ELSE result]
          /\ Goto(r, "DownloadBlob")
    /\ UNCHANGED <<secrets, input, podInfo>>

\* hub.ManifestV2(imageName, tag)
ManifestV2(r) ==
    /\ ~exited
    /\ pc[r] = "ManifestV2"
    /\ \E result \in {"error"} \cup Digests :
          /\ calls' = [calls EXCEPT ![r] = Append(@,
                Call("ManifestV2", <<frame[r].imageName, frame[r].tag>>,
                     result # "error", IF result = "error" THEN "" ELSE result))]
          /\ IF result = "error"
             THEN /\ Fatal(r, "Cannot download manifest for image")
                  /\ UNCHANGED frame
             ELSE /\ frame' = [frame EXCEPT ![r].digest = result]
                  /\ Goto(r, "DownloadBlob")
    /\ UNCHANGED <<secrets, input, podInfo>>

\* hub.DownloadBlob(imageName, manifest.Config.Digest): the request is
\* answered with a reader or an error
DownloadBlob(r) ==
    /\ ~exited
    /\ pc[r] = "DownloadBlob"
    /\ \E ok \in BOOLEAN :
          /\ calls' = [calls EXCEPT ![r] = Append(@,
                Call("DownloadBlob", <<frame[r].imageName, frame[r].digest>>,
                     ok, ""))]
          /\ IF ok THEN Goto(r, "ReadAll")
             ELSE Fatal(r, "Cannot download blob")
    /\ UNCHANGED <<secrets, input, podInfo, frame>>

\* ioutil.ReadAll(reader) of the response body, json.Unmarshal and the
\* return
ReadAll(r) ==
    /\ ~exited
    /\ pc[r] = "ReadAll"
    /\ \E result \in {[kind |-> "readerror"]} \cup Blobs :
          IF result.kind = "readerror"
          THEN Fatal(r, "Cannot read blob")
          ELSE LET msg == UnmarshalBlobResponse(result)
               IN  IF msg.err
                   THEN Fatal(r, "Cannot unmarshal JSON")
                   ELSE Return(r, msg.Entrypoint, msg.Cmd)
    /\ UNCHANGED <<secrets, input, podInfo, frame, calls>>

---------------------------------------------------------------------------
(* Specifications *)

\* concurrent resolutions in one process, over the sample inputs
Next ==
    \E r \in Resolutions :
        \/ GetEntrypointCmd(r, SampleImages, SamplePullSecrets)
        \/ Load(r)
        \/ Trim(r)
        \/ NewRegistry(r)
        \/ ManifestV2(r)
        \/ DownloadBlob(r)
        \/ ReadAll(r)

Spec == Init /\ [][Next]_vars

\* one resolution, over every image of up to MaxImageLen characters
InitImages == InitWith(ImageStores)

NextImages ==
    \/ GetEntrypointCmd(1, Images, AllPullSecrets)
    \/ Load(1)
    \/ Trim(1)
    \/ NewRegistry(1)
    \/ ManifestV2(1)
    \/ DownloadBlob(1)
    \/ ReadAll(1)

SpecImages == InitImages /\ [][NextImages]_vars

\* one resolution, over every pull secret of up to MaxAuths registry hosts
InitHosts == InitWith(HostStores)

NextHosts ==
    \/ GetEntrypointCmd(1, HostImages, SamplePullSecrets)
    \/ Load(1)
    \/ Trim(1)
    \/ NewRegistry(1)
    \/ ManifestV2(1)
    \/ DownloadBlob(1)
    \/ ReadAll(1)

SpecHosts == InitHosts /\ [][NextHosts]_vars

---------------------------------------------------------------------------
(* Vocabulary of the properties *)

LoadFatal == {"Cannot read imagePullSecrets",
              "Cannot unmarshal docker configuration from imagePullSecrets"}

\* Load has run to its end in resolution r
LoadReturned(r) ==
    \/ pc[r] \in {"Trim", "GetImageBlob", "ManifestV2", "DownloadBlob", "ReadAll",
                "returned"}
    \/ pc[r] = "fatal" /\ ret[r].msg \notin LoadFatal

\* GetImageBlob has been called in resolution r
BlobCalled(r) == LoadReturned(r) /\ pc[r] # "Trim"

\* ParseContainerImage has been applied in resolution r
ParseApplied(r) == BlobCalled(r) /\ pc[r] # "GetImageBlob"

\* resolution r consults a pull secret
NamesSecret(r) ==
    /\ Len(input[r].pullSecrets) >= 1
    /\ input[r].pullSecrets[1] # ""

SecretId(r) == <<input[r].namespace, input[r].pullSecrets[1]>>

\* the auths map of the pull secret resolution r consults
SecretAuths(r) ==
    UnmarshalDockerCreds(DataLookup(secrets[SecretId(r)], DockerConfigJsonKey)).creds.Auths

\* resolution r has selected a registry host from its pull secret
Selected(r) == NamesSecret(r) /\ LoadReturned(r)

CallsOf(r, ops) == {i \in 1..Len(calls[r]) : calls[r][i].op \in ops}

RegistryOps == {"New", "NewInsecure", "ManifestV2", "DownloadBlob"}

\* resolution r ended by handing the named error to its caller
ReturnedError(r, name) == ret[r].kind = "error" /\ ret[r].msg = name

\* strings.TrimPrefix: s without the literal prefix, or s unchanged
TrimPrefix(s, prefix) ==
    IF HasPrefix(s, prefix) THEN SubSeq(s, Len(prefix) + 1, Len(s)) ELSE s

OpRank(op) ==
    CASE op = "GetSecret" -> 1
      [] op \in {"New", "NewInsecure"} -> 2
      [] op = "ManifestV2" -> 3
      [] op = "DownloadBlob" -> 4

InFlight == {"Load", "Trim", "GetImageBlob", "ManifestV2", "DownloadBlob",
             "ReadAll"}

---------------------------------------------------------------------------
(* Properties *)

\* C1: a resolution whose manifest request failed hands ManifestNotFoundError
\* to its caller: the process goes on, no blob download is attempted and no
\* entrypoint/cmd is returned.
C1_ManifestFailureIsReturned ==
    \A r \in Resolutions :
        (\E i \in CallsOf(r, {"ManifestV2"}) : ~calls[r][i].ok) =>
            /\ ~exited
            /\ ReturnedError(r, "ManifestNotFoundError")
            /\ CallsOf(r, {"DownloadBlob"}) = {}
            /\ ret[r].entrypoint = <<>> /\ ret[r].cmd = <<>>

\* C2: ParseContainerImage applied to an image without a colon hands
\* MissingTagError to the caller: no (repository, tag), no default tag, no
\* process exit.
C2_MissingTagIsReturned ==
    \A r \in Resolutions :
        (ParseApplied(r) /\ ":" \notin Range(frame[r].image)) =>
            /\ ~exited
            /\ ReturnedError(r, "MissingTagError")
            /\ frame[r].tag = <<>>

\* C3: with a non-empty registry host H, the image passed to the registry
\* client is the container's image without the literal prefix "H/", or the
\* container's image itself when it has no such prefix.
C3_ExactPrefixRemoved ==
    \A r \in Resolutions :
        (BlobCalled(r) /\ podInfo[r].RegistryName # <<>>) =>
            frame[r].image =
                TrimPrefix(input[r].image, podInfo[r].RegistryName \o <<"/">>)

\* C4: ParseContainerImage applied to an image with a colon does not fail
\* and yields (repository, tag) with repository ":" tag the image and no
\* colon in repository: the split is at the first colon.
C4_SplitAtFirstColon ==
    \A r \in Resolutions :
        (ParseApplied(r) /\ ":" \in Range(frame[r].image)) =>
            /\ ret[r].msg # "Cannot find tag for image"
            /\ frame[r].imageName \o <<":">> \o frame[r].tag = frame[r].image
            /\ ":" \notin Range(frame[r].imageName)

C4_Witness ==
    \E r \in Resolutions :
        /\ ParseApplied(r)
        /\ Cardinality({i \in 1..Len(frame[r].image) : frame[r].image[i] = ":"}) >= 2
        /\ frame[r].tag # <<>>

\* C5 as stated: the selected host key K gives username and password of K,
\* the address K when K starts with "https://" and "https://" K otherwise,
\* and the address never starts with "https://https://".
C5_NeverDoublePrefix ==
    \A r \in Resolutions :
        Selected(r) =>
            LET K == podInfo[r].RegistryName
            IN  /\ K \in DOMAIN SecretAuths(r)
                /\ podInfo[r].RegistryUsername = SecretAuths(r)[K].Username
                /\ podInfo[r].RegistryPassword = SecretAuths(r)[K].Password
                /\ podInfo[r].RegistryAddress =
                      IF HasPrefix(K, HttpsScheme) THEN K ELSE HttpsScheme \o K
                /\ ~HasPrefix(podInfo[r].RegistryAddress, HttpsScheme \o HttpsScheme)

\* C5 amended: the selected host key K gives username and password of K,
\* the address K when K starts with "https://" and "https://" K otherwise;
\* the address starts with "https://https://" only when K itself does.
C5_AddressOfSelectedHost ==
    \A r \in Resolutions :
        Selected(r) =>
            LET K == podInfo[r].RegistryName
            IN  /\ K \in DOMAIN SecretAuths(r)
                /\ podInfo[r].RegistryUsername = SecretAuths(r)[K].Username
                /\ podInfo[r].RegistryPassword = SecretAuths(r)[K].Password
                /\ podInfo[r].RegistryAddress =
                      IF HasPrefix(K, HttpsScheme) THEN K ELSE HttpsScheme \o K
                /\ HasPrefix(podInfo[r].RegistryAddress, HttpsScheme \o HttpsScheme)
                      => HasPrefix(K, HttpsScheme \o HttpsScheme)

C5_Witness ==
    \E r \in Resolutions :
        /\ Selected(r)
        /\ Cardinality(DOMAIN SecretAuths(r)) >= 2
        /\ HasPrefix(podInfo[r].RegistryName, HttpsScheme)
        /\ ~HasPrefix(podInfo[r].RegistryName, HttpsScheme \o HttpsScheme)
        /\ podInfo[r].RegistryUsername = "u2"

\* C6: a resolution whose pod spec lists no image-pull secrets reads no
\* Secret, keeps the image name as it is and calls the registry client with
\* empty username and password at "https://registry-1.docker.io/".
C6_AnonymousDefault ==
    \A r \in Resolutions :
        input[r].pullSecrets = <<>> =>
            /\ CallsOf(r, {"GetSecret"}) = {}
            /\ LoadReturned(r) => podInfo[r].Image = input[r].image
            /\ BlobCalled(r) =>
                  /\ frame[r].url = DefaultRegistryAddress
                  /\ frame[r].username = ""
                  /\ frame[r].password = ""
                  /\ frame[r].image = input[r].image
            /\ \A i \in CallsOf(r, {"New", "NewInsecure"}) :
                  calls[r][i].args = <<DefaultRegistryAddress, "", "">>

C6_Witness ==
    \E r \in Resolutions :
        /\ input[r].pullSecrets = <<>>
        /\ pc[r] = "returned"
        /\ CallsOf(r, {"New", "NewInsecure"}) # {}

\* C7: a failure in one resolution never prevents another resolution that
\* is in flight from completing: the process is never gone while a
\* resolution that did not itself fail is still in flight.
C7_NoInterference ==
    \A r \in Resolutions, q \in Resolutions :
        (r # q /\ ret[r].kind \in {"fatal", "panic"}) =>
            ~(exited /\ pc[q] \in InFlight)

\* C8: all resolutions that consult the same pull secret select the same
\* host entry, hence the same address, username and password.
C8_SameHostSelected ==
    \A r \in Resolutions, q \in Resolutions :
        (Selected(r) /\ Selected(q) /\ SecretId(r) = SecretId(q)) =>
            /\ podInfo[r].RegistryName = podInfo[q].RegistryName
            /\ podInfo[r].RegistryAddress = podInfo[q].RegistryAddress
            /\ podInfo[r].RegistryUsername = podInfo[q].RegistryUsername
            /\ podInfo[r].RegistryPassword = podInfo[q].RegistryPassword

\* C9: a resolution that has read a pull secret without a usable auth entry
\* hands MalformedSecretError to its caller: no crash, no registry call.
C9_UnusableSecretIsReturned ==
    \A r \in Resolutions :
        (/\ NamesSecret(r)
         /\ \E i \in CallsOf(r, {"GetSecret"}) : calls[r][i].ok
         /\ secrets[SecretId(r)] \in UnusableData) =>
            /\ ReturnedError(r, "MalformedSecretError")
            /\ ~exited
            /\ CallsOf(r, RegistryOps) = {}

\* C10: the external calls of one resolution come in the order Secret read,
\* registry session, manifest, blob, each at most once; only the last call
\* made can have failed, and a failed call ends the resolution; a registry
\* call is made only after the Secret read, if one is due, succeeded; the
\* blob is requested with the digest the manifest returned.
C10_CallOrder ==
    \A r \in Resolutions :
        LET L == calls[r]
        IN  /\ \A i \in 1..Len(L), j \in 1..Len(L) :
                  i < j => OpRank(L[i].op) < OpRank(L[j].op)
            /\ \A i \in 1..Len(L) :
                  ~L[i].ok => (i = Len(L) /\ pc[r] = "fatal")
            /\ (NamesSecret(r) /\ CallsOf(r, RegistryOps) # {}) =>
                  (L[1].op = "GetSecret" /\ L[1].ok)
            /\ \A j \in CallsOf(r, {"DownloadBlob"}) :
                  /\ j > 1
                  /\ L[j - 1].op = "ManifestV2"
                  /\ L[j - 1].ok
                  /\ L[j].args = <<L[j - 1].args[1], L[j - 1].val>>

C10_Witness ==
    \E r \in Resolutions :
        /\ Len(calls[r]) = 4
        /\ pc[r] = "returned"
        /\ calls[r][4].args[2] = "sha256:2"

============================================================================
